---- MODULE Spec2Model ----
(***************************************************************************)
(* Model of the rs-fusion session core: the request parser                 *)
(* (messages/request.rs, messages/argument.rs), the reply serializer       *)
(* (messages/reply.rs) and the session loop (session.rs), for the build    *)
(* with every abi-7-x feature enabled on Linux, little endian.             *)
(*                                                                         *)
(* Bytes are the naturals 0..255.  A byte slice is a sequence of bytes;    *)
(* Rust's 0-based offset k is index k+1 here.  64-bit fields that the code *)
(* only copies (unique, nodeid) are kept as their 8 bytes; 32-bit fields   *)
(* the code computes with (opcode, size, count, len) are decoded.          *)
(***************************************************************************)
EXTENDS Integers, Sequences, FiniteSets, TLC

VARIABLES
    pc,             \* position of the session task inside Inner::run
    cancelled,      \* state of the shared CancellationToken
    guardCancel,    \* select! precondition of the cancelled() branch, as evaluated
    guardRead,      \* select! precondition of the read branch, as evaluated
    iterCancelled,  \* what the while condition saw in is_cancelled() for this iteration
    buffer,         \* Inner::buffer
    outQ,           \* outbound request channel (Inner -> filesystem handler)
    outRxOpen,      \* the handler still owns the RequestRx
    pendingReq,     \* the Request on_read is awaiting to send (<<>> when none)
    inQ,            \* inbound reply channel (handlers -> Inner)
    held,           \* Requests the handler has received and not yet dropped
    handlerKind,    \* the handler of the session: "sequential" (one request at a
                    \* time) or "concurrent"; "parser", "replier", "builder" when
                    \* parse, Reply::write or the Builder is run on its own
    readLog,        \* frames the device read has returned, in order
    delivered,      \* Requests the handler has received, in order
    enqLog,         \* Replies ever enqueued on the inbound channel, in order
    devWrites,      \* what on_fs_reply has handed to the device write, in order
    enodev,         \* on_read has met ENODEV in the iteration that has just ended
    file,           \* Inner::file: "some" or "none"
    closes,         \* how many times the device descriptor has been closed
    slice,          \* input of the parser run on its own (ParseSpec)
    parsed,         \* result of the parser run on its own (ParseSpec)
    builder,        \* the Builder a build() call is made on (BuildSpec)
    built,          \* what the build() calls did and returned (BuildSpec)
    replyIn,        \* a Reply and the buffer it is written to on its own (ReplySpec)
    wrote           \* what Reply::write and the device write made of it (ReplySpec)

vars == <<pc, cancelled, guardCancel, guardRead, iterCancelled, buffer, outQ,
          outRxOpen, pendingReq, inQ, held, handlerKind, readLog, delivered,
          enqLog, devWrites, enodev, file, closes, slice, parsed, builder,
          built, replyIn, wrote>>

sessionVars == <<pc, cancelled, guardCancel, guardRead, iterCancelled, buffer, outQ,
                 outRxOpen, pendingReq, inQ, held, handlerKind, readLog, delivered,
                 enqLog, devWrites, enodev, file, closes>>

\* inputs and results of the operations that are run on their own
pureVars == <<slice, parsed, builder, built, replyIn, wrote>>

----------------------------------------------------------------------------
(* Bounds of the exploration *)

\* Length of Inner::buffer in the model; the code allocates SIZE_BUFFER = 16 MiB.
BufferLen == 48
\* Capacity of the reply channel in the model; the code uses SIZE_CHANNEL = 32.
ChannelCap == 2
\* Capacity of the request channel, which the application creates and hands to
\* the builder (create_request_channel uses SIZE_CHANNEL = 32).
RequestCap == 1
\* Frames the kernel hands to a concurrent handler's session.
MaxFrames == 2
\* Replies the handlers enqueue in one run.
MaxReplies == 2

(* Program constants *)

SIZE_IN_HEADER == 40
SIZE_OUT_HEADER == 16
EIO == 5
ENOENT == 2
EINTR == 4
EAGAIN == 11
ENODEV == 19
EINVAL == 22

----------------------------------------------------------------------------
(* Byte helpers *)

Take(b, n) == SubSeq(b, 1, n)
Drop(b, n) == SubSeq(b, n + 1, Len(b))
Zeros(n) == [i \in 1..n |-> 0]

\* little-endian image of a u32 / of a u64 below 2^31
U32(n) == <<n % 256, (n \div 256) % 256, (n \div 65536) % 256, (n \div 16777216) % 256>>
U64(n) == U32(n) \o Zeros(4)
\* image of a negative i32 (two's complement), for -1 >= n > -2^24
I32(n) == IF n >= 0 THEN U32(n)
          ELSE <<(16777216 + n) % 256, ((16777216 + n) \div 256) % 256,
                 ((16777216 + n) \div 65536) % 256, 255>>

\* the u32 stored at 0-based offset off of b
u32_at(b, off) == b[off + 1] + 256 * b[off + 2] + 65536 * b[off + 3] + 16777216 * b[off + 4]

\* buffer[off .. off + Len(bytes)].copy_from_slice(bytes)
Overlay(buf, off, bytes) ==
    SubSeq(buf, 1, off) \o bytes \o SubSeq(buf, off + Len(bytes) + 1, Len(buf))

----------------------------------------------------------------------------
(* messages/argument.rs *)

IsCont(x) == x >= 128 /\ x <= 191
IsLead2(x) == x >= 194 /\ x <= 223

\* String::from_utf8_lossy(..).into_owned(), as bytes of the resulting String.
\* Exact for input made of ASCII, two-byte sequences and bytes that start no
\* valid sequence (0x80..0xC1, 0xF5..0xFF); three- and four-byte leads are
\* outside the inputs used.
RECURSIVE from_utf8_lossy(_)
from_utf8_lossy(b) ==
    IF b = <<>> THEN <<>>
    ELSE IF b[1] < 128 THEN <<b[1]>> \o from_utf8_lossy(Tail(b))
    ELSE IF IsLead2(b[1]) /\ Len(b) >= 2 /\ IsCont(b[2])
         THEN <<b[1], b[2]>> \o from_utf8_lossy(Drop(b, 2))
    ELSE <<239, 191, 189>> \o from_utf8_lossy(Tail(b))

HasNul(b) == \E i \in DOMAIN b : b[i] = 0
\* memchr::memchr(0, buffer), as a 1-based index
NulIndex(b) == CHOOSE i \in DOMAIN b : b[i] = 0 /\ \A j \in 1..(i - 1) : b[j] # 0

\* a get_string that splits after the NUL and so keeps it in the string
get_string_with_nul(b) ==
    IF ~HasNul(b) THEN [panic |-> TRUE, string |-> <<>>, rest |-> <<>>]
    ELSE [panic |-> FALSE,
          string |-> from_utf8_lossy(Take(b, NulIndex(b))),
          rest |-> Drop(b, NulIndex(b))]
\* get_string: .expect("NUL terminated string") aborts when there is no NUL
get_string(b) ==
    IF ~HasNul(b) THEN [panic |-> TRUE, string |-> <<>>, rest |-> <<>>]
    ELSE [panic |-> FALSE,
          string |-> from_utf8_lossy(Take(b, NulIndex(b) - 1)),
          rest |-> Drop(b, NulIndex(b))]

\* get_vec::<T>(buffer, count) with size_of::<T>() = elem: ref_from_prefix_with_elems
\* fails, and .unwrap() aborts, when fewer than count * elem bytes remain
get_vec(b, count, elem) ==
    IF count * elem > Len(b) THEN [panic |-> TRUE, elems |-> <<>>]
    ELSE [panic |-> FALSE,
          elems |-> [k \in 1..count |-> SubSeq(b, (k - 1) * elem + 1, k * elem)]]

----------------------------------------------------------------------------
(* messages/fuse_abi.rs *)

\* fuse_opcode::try_from succeeds exactly on these values
Opcodes == (1..6) \cup (8..18) \cup (20..52) \cup {4096}

\* fuse_in_header::mut_from_prefix
fuse_in_header(b) ==
    [len     |-> u32_at(b, 0),
     opcode  |-> u32_at(b, 4),
     unique  |-> SubSeq(b, 9, 16),
     nodeid  |-> SubSeq(b, 17, 24),
     uid     |-> SubSeq(b, 25, 28),
     gid     |-> SubSeq(b, 29, 32),
     pid     |-> SubSeq(b, 33, 36),
     padding |-> SubSeq(b, 37, 40)]

\* size_of the fixed argument record each opcode's match arm casts
ArgSize(opcode) ==
    CASE opcode = 2 -> 8        \* fuse_forget_in
      [] opcode = 3 -> 16       \* fuse_getattr_in
      [] opcode = 4 -> 88       \* fuse_setattr_in
      [] opcode = 8 -> 16       \* fuse_mknod_in
      [] opcode = 9 -> 8        \* fuse_mkdir_in
      [] opcode = 12 -> 8       \* fuse_rename_in
      [] opcode = 13 -> 8       \* fuse_link_in
      [] opcode \in {14, 27} -> 8           \* fuse_open_in
      [] opcode \in {15, 28, 44} -> 40      \* fuse_read_in
      [] opcode = 16 -> 40      \* fuse_write_in
      [] opcode \in {18, 29} -> 24          \* fuse_release_in
      [] opcode \in {20, 30} -> 16          \* fuse_fsync_in
      [] opcode = 21 -> 8       \* fuse_setxattr_in
      [] opcode \in {22, 23} -> 8           \* fuse_getxattr_in
      [] opcode = 25 -> 24      \* fuse_flush_in
      [] opcode \in {26, 4096} -> 16        \* fuse_init_in
      [] opcode \in {31, 32, 33} -> 48      \* fuse_lk_in
      [] opcode = 34 -> 8       \* fuse_access_in
      [] opcode = 35 -> 16      \* fuse_create_in
      [] opcode = 36 -> 8       \* fuse_interrupt_in
      [] opcode = 37 -> 16      \* fuse_bmap_in
      [] opcode = 39 -> 32      \* fuse_ioctl_in
      [] opcode = 40 -> 24      \* fuse_poll_in
      [] opcode = 42 -> 8       \* fuse_batch_forget_in
      [] opcode = 43 -> 32      \* fuse_fallocate_in
      [] opcode = 45 -> 16      \* fuse_rename2_in
      [] opcode = 46 -> 24      \* fuse_lseek_in
      [] opcode = 47 -> 56      \* fuse_copy_file_range_in
      [] OTHER -> 0

----------------------------------------------------------------------------
(* messages/request.rs: Request::parse *)

\* enum Operation, #[repr(u32)]: the variants of the build in the order of their
\* declaration, each with its explicit discriminant
OperationVariants ==
    << [name |-> "Lookup", discriminant |-> 1],
       [name |-> "Forget", discriminant |-> 2],
       [name |-> "GetAttr", discriminant |-> 3],
       [name |-> "SetAttr", discriminant |-> 4],
       [name |-> "ReadLink", discriminant |-> 5],
       [name |-> "SymLink", discriminant |-> 6],
       [name |-> "MkNod", discriminant |-> 8],
       [name |-> "MkDir", discriminant |-> 9],
       [name |-> "Unlink", discriminant |-> 10],
       [name |-> "RmDir", discriminant |-> 11],
       [name |-> "Rename", discriminant |-> 12],
       [name |-> "Link", discriminant |-> 13],
       [name |-> "Open", discriminant |-> 14],
       [name |-> "Read", discriminant |-> 15],
       [name |-> "Write", discriminant |-> 16],
       [name |-> "StatFs", discriminant |-> 17],
       [name |-> "Release", discriminant |-> 18],
       [name |-> "FSync", discriminant |-> 20],
       [name |-> "SetXAttr", discriminant |-> 21],
       [name |-> "GetXAttr", discriminant |-> 22],
       [name |-> "ListXAttr", discriminant |-> 23],
       [name |-> "RemoveXAttr", discriminant |-> 24],
       [name |-> "Flush", discriminant |-> 25],
       [name |-> "Init", discriminant |-> 26],
       [name |-> "OpenDir", discriminant |-> 27],
       [name |-> "ReadDir", discriminant |-> 28],
       [name |-> "ReleaseDir", discriminant |-> 29],
       [name |-> "FSyncDir", discriminant |-> 30],
       [name |-> "GetLk", discriminant |-> 31],
       [name |-> "SetLk", discriminant |-> 32],
       [name |-> "SetLkW", discriminant |-> 33],
       [name |-> "Access", discriminant |-> 34],
       [name |-> "Create", discriminant |-> 35],
       [name |-> "Interrupt", discriminant |-> 36],
       [name |-> "BMap", discriminant |-> 37],
       [name |-> "Destroy", discriminant |-> 38],
       [name |-> "IoCtl", discriminant |-> 39],
       [name |-> "Poll", discriminant |-> 40],
       [name |-> "NotifyReply", discriminant |-> 41],
       [name |-> "BatchForget", discriminant |-> 42],
       [name |-> "FAllocate", discriminant |-> 43],
       [name |-> "ReadDirPlus", discriminant |-> 44],
       [name |-> "Rename2", discriminant |-> 45],
       [name |-> "LSeek", discriminant |-> 46],
       [name |-> "CopyFileRange", discriminant |-> 47],
       [name |-> "SetupMapping", discriminant |-> 48],
       [name |-> "RemoveMapping", discriminant |-> 49],
       [name |-> "SyncFs", discriminant |-> 50],
       [name |-> "TmpFile", discriminant |-> 51],
       [name |-> "StatX", discriminant |-> 52],
       [name |-> "CuseInit", discriminant |-> 4096] >>

\* a get_opcode that returns the position of the variant in the declaration, the
\* discriminant an enum without explicit values would have
get_opcode_position(variant) ==
    (CHOOSE i \in DOMAIN OperationVariants : OperationVariants[i].name = variant) - 1
\* Operation::get_opcode: reads the u32 discriminant of the value
get_opcode(variant) ==
    LET i == CHOOSE i \in DOMAIN OperationVariants : OperationVariants[i].name = variant
    IN  OperationVariants[i].discriminant

\* the variant that the arm of the opcode in Request::parse constructs
ArmVariant(opcode) ==
    CASE opcode = 1 -> "Lookup"
      [] opcode = 2 -> "Forget"
      [] opcode = 3 -> "GetAttr"
      [] opcode = 4 -> "SetAttr"
      [] opcode = 5 -> "ReadLink"
      [] opcode = 6 -> "SymLink"
      [] opcode = 8 -> "MkNod"
      [] opcode = 9 -> "MkDir"
      [] opcode = 10 -> "Unlink"
      [] opcode = 11 -> "RmDir"
      [] opcode = 12 -> "Rename"
      [] opcode = 13 -> "Link"
      [] opcode = 14 -> "Open"
      [] opcode = 15 -> "Read"
      [] opcode = 16 -> "Write"
      [] opcode = 17 -> "StatFs"
      [] opcode = 18 -> "Release"
      [] opcode = 20 -> "FSync"
      [] opcode = 21 -> "SetXAttr"
      [] opcode = 22 -> "GetXAttr"
      [] opcode = 23 -> "ListXAttr"
      [] opcode = 24 -> "RemoveXAttr"
      [] opcode = 25 -> "Flush"
      [] opcode = 26 -> "Init"
      [] opcode = 27 -> "OpenDir"
      [] opcode = 28 -> "ReadDir"
      [] opcode = 29 -> "ReleaseDir"
      [] opcode = 30 -> "FSyncDir"
      [] opcode = 31 -> "GetLk"
      [] opcode = 32 -> "SetLk"
      [] opcode = 33 -> "SetLkW"
      [] opcode = 34 -> "Access"
      [] opcode = 35 -> "Create"
      [] opcode = 36 -> "Interrupt"
      [] opcode = 37 -> "BMap"
      [] opcode = 38 -> "Destroy"
      [] opcode = 39 -> "IoCtl"
      [] opcode = 40 -> "Poll"
      [] opcode = 41 -> "NotifyReply"
      [] opcode = 42 -> "BatchForget"
      [] opcode = 43 -> "FAllocate"
      [] opcode = 44 -> "ReadDirPlus"
      [] opcode = 45 -> "Rename2"
      [] opcode = 46 -> "LSeek"
      [] opcode = 47 -> "CopyFileRange"
      [] opcode = 48 -> "SetupMapping"
      [] opcode = 49 -> "RemoveMapping"
      [] opcode = 50 -> "SyncFs"
      [] opcode = 51 -> "TmpFile"
      [] opcode = 52 -> "StatX"
      [] opcode = 4096 -> "CuseInit"

\* an Operation value; fields a variant does not have are empty
Operation(variant, arg, name, newname, target, data, nodes, old_parent) ==
    [panic |-> FALSE, variant |-> variant, arg |-> arg, name |-> name,
     newname |-> newname, target |-> target, data |-> data, nodes |-> nodes,
     old_parent |-> old_parent]

\* the match arm aborted (unwrap / expect / slice index out of range)
OperationPanic ==
    [panic |-> TRUE, variant |-> "", arg |-> <<>>, name |-> <<>>, newname |-> <<>>,
     target |-> <<>>, data |-> <<>>, nodes |-> <<>>, old_parent |-> <<>>]

\* T::ref_from_prefix(b).unwrap() / T::mut_from_prefix(b).unwrap(), size_of::<T>() = n
cast_prefix(b, n) ==
    IF Len(b) < n THEN [panic |-> TRUE, arg |-> <<>>, rest |-> <<>>]
    ELSE [panic |-> FALSE, arg |-> Take(b, n), rest |-> Drop(b, n)]

NameOnlyOpcodes == {1, 10, 11, 24}
FixedOnlyOpcodes == {3, 4, 14, 15, 18, 20, 23, 25, 26, 27, 28, 29, 30, 31, 32, 33,
                     34, 36, 37, 40, 43, 44, 46, 47, 4096}
FixedNameOpcodes == {8, 9, 13, 22, 35}
FixedTwoNamesOpcodes == {12, 45}

\* FUSE_LOOKUP, FUSE_UNLINK, FUSE_RMDIR, FUSE_REMOVEXATTR
parse_name_only(opcode, rest) ==
    LET s == get_string(rest) IN
    IF s.panic THEN OperationPanic
    ELSE Operation(ArmVariant(opcode), <<>>, s.string, <<>>, <<>>, <<>>, <<>>, <<>>)

\* FUSE_FORGET casts its argument from the start of buffer, not from rest
parse_forget(opcode, buf) ==
    LET a == cast_prefix(buf, ArgSize(opcode)) IN
    IF a.panic THEN OperationPanic
    ELSE Operation(ArmVariant(opcode), a.arg, <<>>, <<>>, <<>>, <<>>, <<>>, <<>>)

\* the arms that cast one fixed record from rest
parse_fixed_only(opcode, rest) ==
    LET a == cast_prefix(rest, ArgSize(opcode)) IN
    IF a.panic THEN OperationPanic
    ELSE Operation(ArmVariant(opcode), a.arg, <<>>, <<>>, <<>>, <<>>, <<>>, <<>>)

\* FUSE_SYMLINK
parse_symlink(opcode, rest) ==
    LET s1 == get_string(rest) IN
    IF s1.panic THEN OperationPanic
    ELSE LET s2 == get_string(s1.rest) IN
         IF s2.panic THEN OperationPanic
         ELSE Operation(ArmVariant(opcode), <<>>, s1.string, <<>>, s2.string, <<>>, <<>>, <<>>)

\* FUSE_MKNOD, FUSE_MKDIR, FUSE_LINK, FUSE_GETXATTR, FUSE_CREATE
parse_fixed_name(opcode, rest) ==
    LET a == cast_prefix(rest, ArgSize(opcode)) IN
    IF a.panic THEN OperationPanic
    ELSE LET s == get_string(a.rest) IN
         IF s.panic THEN OperationPanic
         ELSE Operation(ArmVariant(opcode), a.arg, s.string, <<>>, <<>>, <<>>, <<>>, <<>>)

\* FUSE_RENAME, FUSE_RENAME2 (which also keeps header.nodeid as old_parent)
parse_fixed_two_names(opcode, rest, nodeid) ==
    LET a == cast_prefix(rest, ArgSize(opcode)) IN
    IF a.panic THEN OperationPanic
    ELSE LET s1 == get_string(a.rest) IN
         IF s1.panic THEN OperationPanic
         ELSE LET s2 == get_string(s1.rest) IN
              IF s2.panic THEN OperationPanic
              ELSE Operation(ArmVariant(opcode), a.arg, s1.string, s2.string, <<>>, <<>>, <<>>,
                             IF opcode = 45 THEN nodeid ELSE <<>>)

\* FUSE_WRITE: rest2[..arg.size as usize].to_vec()
parse_write(opcode, rest) ==
    LET a == cast_prefix(rest, ArgSize(opcode)) IN
    IF a.panic THEN OperationPanic
    ELSE LET size == u32_at(a.arg, 16) IN
         IF size > Len(a.rest) THEN OperationPanic
         ELSE Operation(ArmVariant(opcode), a.arg, <<>>, <<>>, <<>>, Take(a.rest, size), <<>>, <<>>)

\* FUSE_SETXATTR: get_vec::<u8>(rest, arg.size)
parse_setxattr(opcode, rest) ==
    LET a == cast_prefix(rest, ArgSize(opcode)) IN
    IF a.panic THEN OperationPanic
    ELSE LET s == get_string(a.rest) IN
         IF s.panic THEN OperationPanic
         ELSE LET v == get_vec(s.rest, u32_at(a.arg, 0), 1) IN
              IF v.panic THEN OperationPanic
              ELSE Operation(ArmVariant(opcode), a.arg, s.string, <<>>, <<>>,
                             [k \in DOMAIN v.elems |-> v.elems[k][1]], <<>>, <<>>)

\* FUSE_IOCTL: data = rest.to_vec()
parse_ioctl(opcode, rest) ==
    LET a == cast_prefix(rest, ArgSize(opcode)) IN
    IF a.panic THEN OperationPanic
    ELSE Operation(ArmVariant(opcode), a.arg, <<>>, <<>>, <<>>, a.rest, <<>>, <<>>)

\* FUSE_BATCH_FORGET: get_vec::<fuse_forget_one>(rest, arg.count)
parse_batch_forget(opcode, rest) ==
    LET a == cast_prefix(rest, ArgSize(opcode)) IN
    IF a.panic THEN OperationPanic
    ELSE LET v == get_vec(a.rest, u32_at(a.arg, 0), 16) IN
         IF v.panic THEN OperationPanic
         ELSE Operation(ArmVariant(opcode), a.arg, <<>>, <<>>, <<>>, <<>>, v.elems, <<>>)

\* the arms that build their Operation without reading the frame
parse_no_argument(opcode) ==
    Operation(ArmVariant(opcode), <<>>, <<>>, <<>>, <<>>, <<>>, <<>>, <<>>)

\* the match on the opcode
parse_operation(header, buf, rest) ==
    LET opcode == header.opcode IN
    CASE opcode \in NameOnlyOpcodes -> parse_name_only(opcode, rest)
      [] opcode = 2 -> parse_forget(opcode, buf)
      [] opcode \in FixedOnlyOpcodes -> parse_fixed_only(opcode, rest)
      [] opcode = 6 -> parse_symlink(opcode, rest)
      [] opcode \in FixedNameOpcodes -> parse_fixed_name(opcode, rest)
      [] opcode \in FixedTwoNamesOpcodes -> parse_fixed_two_names(opcode, rest, header.nodeid)
      [] opcode = 16 -> parse_write(opcode, rest)
      [] opcode = 21 -> parse_setxattr(opcode, rest)
      [] opcode = 39 -> parse_ioctl(opcode, rest)
      [] opcode = 42 -> parse_batch_forget(opcode, rest)
      [] OTHER -> parse_no_argument(opcode)

NoHeader ==
    [len |-> 0, opcode |-> 0, unique |-> <<>>, nodeid |-> <<>>, uid |-> <<>>,
     gid |-> <<>>, pid |-> <<>>, padding |-> <<>>]

ParseOk(header, operation) ==
    [tag |-> "Ok", errno |-> 0, header |-> header, operation |-> operation]
ParseErr(errno) ==
    [tag |-> "Err", errno |-> errno, header |-> NoHeader, operation |-> OperationPanic]
ParsePanic ==
    [tag |-> "Panic", errno |-> 0, header |-> NoHeader, operation |-> OperationPanic]
NotParsed ==
    [tag |-> "None", errno |-> 0, header |-> NoHeader, operation |-> OperationPanic]

\* Request::parse(buffer, reply_to); the Request it returns carries a clone of reply_to
Request_parse(buf) ==
    IF Len(buf) < SIZE_IN_HEADER THEN ParseErr(EIO)
    ELSE LET header == fuse_in_header(buf)
             rest == Drop(buf, SIZE_IN_HEADER)
         IN  IF header.opcode \notin Opcodes THEN ParseErr(EIO)
             ELSE LET operation == parse_operation(header, buf, rest) IN
                  IF operation.panic THEN ParsePanic
                  ELSE ParseOk(header, operation)

----------------------------------------------------------------------------
(* Frames, as the kernel lays them out *)

Frame(opcode, unique, body) ==
    U32(SIZE_IN_HEADER + Len(body)) \o U32(opcode) \o U64(unique) \o U64(9)
        \o U32(1000) \o U32(1000) \o U32(77) \o U32(0) \o body

----------------------------------------------------------------------------
(* messages/reply.rs: Reply and its serializer *)

\* an Operation of a Reply: kind selects the IWrite implementation
NoOperation == [kind |-> "None", arg |-> <<>>, data |-> <<>>, entries |-> <<>>]
\* the #[repr(transparent)] variants, which write self.as_bytes()
FixedOperation(arg) == [kind |-> "Fixed", arg |-> arg, data |-> <<>>, entries |-> <<>>]
ReadOperation(data) == [kind |-> "Read", arg |-> <<>>, data |-> data, entries |-> <<>>]
ReadLinkOperation(data) == [kind |-> "ReadLink", arg |-> <<>>, data |-> data, entries |-> <<>>]
GetXAttrOperation(arg, data) == [kind |-> "GetXAttr", arg |-> arg, data |-> data, entries |-> <<>>]
ListXAttrOperation(data) == [kind |-> "ListXAttr", arg |-> <<>>, data |-> data, entries |-> <<>>]
ReadDirOperation(entries) == [kind |-> "ReadDir", arg |-> <<>>, data |-> <<>>, entries |-> entries]

\* Reply::new(unique, error, operation); len starts at 0
Reply_new(unique, error, operation) ==
    [header |-> [len |-> 0, error |-> error, unique |-> unique], operation |-> operation]

\* impl From<&Request> for Reply
Reply_from(request) ==
    [header |-> [len |-> 0, error |-> 0, unique |-> request.header.unique],
     operation |-> NoOperation]

\* i32 from Errno: the wire carries the negated errno
Errno_into_i32(errno) == 0 - errno

\* the Reply Request::send_error builds
send_error_reply(request, errno) ==
    [header |-> [len |-> 0, error |-> Errno_into_i32(errno),
                 unique |-> request.header.unique],
     operation |-> NoOperation]

\* header bytes that lose the unique
fuse_out_header_bytes_no_unique(h) == U32(h.len) \o I32(h.error) \o Zeros(8)
\* fuse_out_header::as_bytes
fuse_out_header_bytes(h) == U32(h.len) \o I32(h.error) \o h.unique

\* buffer[off .. off + Len(bytes)].copy_from_slice(bytes) on a slice that starts at
\* off0: aborts when the range leaves the buffer
WriteBytes(w, bytes) ==
    IF w.panic \/ w.at + Len(bytes) > Len(w.buffer)
    THEN [w EXCEPT !.panic = TRUE]
    ELSE [panic |-> FALSE, buffer |-> Overlay(w.buffer, w.at, bytes),
          at |-> w.at + Len(bytes)]

\* fuse_dirent.as_bytes()
fuse_dirent_bytes(entry) ==
    U64(entry.ino) \o U64(entry.off) \o U32(entry.namelen) \o U32(entry.typ)

\* a write of one entry that does not fill it up to the 8-byte boundary
DirectoryEntry_write_unpadded(w, e) ==
    LET entry == [e EXCEPT !.namelen = Len(e.name)]
        w1 == WriteBytes(w, fuse_dirent_bytes(entry))
    IN  WriteBytes(w1, e.name)
\* impl IWrite for DirectoryEntry, writing at w.at: namelen is set from the name,
\* then the record and the name are copied and the count is filled up with zeros
\* to a multiple of 8
DirectoryEntry_write(w, e) ==
    LET entry == [e EXCEPT !.namelen = Len(e.name)]
        w1 == WriteBytes(w, fuse_dirent_bytes(entry))
        w2 == WriteBytes(w1, e.name)
        count == Len(fuse_dirent_bytes(entry)) + Len(e.name)
        r == count % 8
    IN  IF r > 0 THEN WriteBytes(w2, Zeros(8 - r)) ELSE w2

\* impl IWrite for ReadDir
RECURSIVE ReadDir_write(_, _)
ReadDir_write(w, entries) ==
    IF entries = <<>> THEN w
    ELSE ReadDir_write(DirectoryEntry_write(w, Head(entries)), Tail(entries))

\* impl IWrite for Operation: dispatch on the variant
Operation_write(w, op) ==
    CASE op.kind = "Fixed" -> WriteBytes(w, op.arg)
      [] op.kind \in {"Read", "ReadLink", "ListXAttr"} -> WriteBytes(w, op.data)
      [] op.kind = "GetXAttr" -> WriteBytes(WriteBytes(w, op.arg), op.data)
      [] op.kind = "ReadDir" -> ReadDir_write(w, op.entries)
      [] OTHER -> w

\* a serializer that leaves the len the caller put in the header
Reply_write_keep_len(reply, buf) ==
    LET w0 == [panic |-> FALSE, buffer |-> buf, at |-> 0]
        w1 == WriteBytes(w0, fuse_out_header_bytes(reply.header))
        w2 == IF reply.operation.kind # "None" THEN Operation_write(w1, reply.operation)
              ELSE w1
    IN  IF w2.panic THEN [panic |-> TRUE, buffer |-> buf, count |-> 0]
        ELSE [panic |-> FALSE, buffer |-> w2.buffer, count |-> w2.at]

\* impl IWrite for Reply: header, then the operation if there is one, then the
\* header's len is overwritten with the byte count
Reply_write(reply, buf) ==
    LET w0 == [panic |-> FALSE, buffer |-> buf, at |-> 0]
        w1 == WriteBytes(w0, fuse_out_header_bytes(reply.header))
        w2 == IF reply.operation.kind # "None" THEN Operation_write(w1, reply.operation)
              ELSE w1
    IN  IF w2.panic THEN [panic |-> TRUE, buffer |-> buf, count |-> 0]
        ELSE [panic |-> FALSE, buffer |-> Overlay(w2.buffer, 0, U32(w2.at)),
              count |-> w2.at]

----------------------------------------------------------------------------
(* The environment of one session: the kernel and the filesystem handler *)

Sequential == handlerKind = "sequential"

\* a sequential handler is explored far enough to fill both channels
FrameBudget == IF Sequential THEN ChannelCap + RequestCap + 2 ELSE MaxFrames
ReplyBudget == IF Sequential THEN ChannelCap + RequestCap + 2 ELSE MaxReplies

\* what the kernel may put into the next frame; its unique is the frame's number
FrameKinds == IF Sequential THEN {"lookup"}
              ELSE {"lookup", "unknown", "batch_forget_overrun"}

KernelFrame(kind, unique) ==
    CASE kind = "lookup" -> Frame(1, unique, <<97, 0>>)
      [] kind = "unknown" -> Frame(7, unique, <<>>)
      [] kind = "batch_forget_overrun" -> Frame(42, unique, U32(BufferLen) \o U32(0))

\* errors the device read may return
ReadErrnos == {ENOENT, EINTR, EAGAIN, ENODEV, EIO}

\* replies a handler may pass to Request::send
CustomReplies(request) ==
    { [Reply_new(request.header.unique, 0, ReadOperation(<<222, 173>>))
           EXCEPT !.header.len = 7] }

\* which of send_ok / send_error / send the handler uses on a Request: requests
\* with an odd unique are answered with send_ok, the others with send_error or send
HandlerPolicy(request) ==
    IF Sequential \/ u32_at(request.header.unique, 0) % 2 = 1
    THEN {"send_ok"}
    ELSE {"send_error", "send"}

----------------------------------------------------------------------------
(* session.rs: Inner *)

Ended == pc \in {"done_ok", "done_err", "panicked"}

\* Senders of the inbound reply channel: Inner::inbound_fs_reply_tx, and the
\* reply_to clone inside every Request that is alive
InnerSenders == 1
SenderCount == InnerSenders + Len(outQ) + Len(pendingReq) + Cardinality(held)

\* ReplyRx::is_closed / is_empty
is_closed == SenderCount = 0
is_empty == inQ = <<>>

\* Inner::is_busy
is_busy == ~is_closed \/ ~is_empty

InitSession ==
    /\ pc = "while"
    /\ cancelled = FALSE
    /\ guardCancel = FALSE
    /\ guardRead = FALSE
    /\ iterCancelled = FALSE
    /\ buffer = Zeros(BufferLen)
    /\ outQ = <<>>
    /\ outRxOpen = TRUE
    /\ pendingReq = <<>>
    /\ inQ = <<>>
    /\ held = {}
    /\ readLog = <<>>
    /\ delivered = <<>>
    /\ enqLog = <<>>
    /\ devWrites = <<>>
    /\ enodev = FALSE
    /\ file = "some"
    /\ closes = 0

\* the parser is not run on its own
NoParserRun == slice = <<>> /\ parsed = NotParsed

\* no Builder is in use: the session was built before
\* Builder::new; device_path stands for what the path names: "missing", "regular"
\* (a file that is no character device) or "chardev"
DefaultMountOptions == <<"AllowOther", "DefaultPermissions", "NoDev", "NoAtime">>
Builder_new ==
    [device_path |-> "chardev", mount_path |-> "None",
     mount_options |-> DefaultMountOptions, outbound_fs_request_tx |-> "None"]

NoBuildRun == builder = Builder_new /\ built = <<>>

NotWritten == [tag |-> "None"]
NoReplyRun ==
    /\ replyIn = [reply |-> Reply_new(Zeros(8), 0, NoOperation), buffer |-> <<>>]
    /\ wrote = NotWritten

\* a handler that may hold several Requests and answer them in any order
Init == InitSession /\ NoParserRun /\ NoBuildRun /\ NoReplyRun /\ handlerKind = "concurrent"

\* a handler that answers each Request with send_ok before it receives the next
InitSeq == InitSession /\ NoParserRun /\ NoBuildRun /\ NoReplyRun /\ handlerKind = "sequential"

\* a cancel() that flips the flag
cancel_toggle(token) == ~token
\* CancellationToken::cancel: the flag after the call
cancel(token) == TRUE

\* Session::cancel, or cancel() on a clone of the token
Cancel ==
    /\ cancelled' = cancel(cancelled)
    /\ UNCHANGED <<pc, guardCancel, guardRead, iterCancelled, buffer, outQ, outRxOpen,
                   pendingReq, inQ, held, handlerKind, readLog, delivered, enqLog,
                   devWrites, enodev, file, closes,
                   pureVars>>

\* a read branch without its precondition
ReadBranchAlways == TRUE
\* the read branch of select! is enabled unless the token is cancelled
ReadBranchEnabled == ~cancelled

\* a drop that closes the reader instead of forgetting it
Inner_drop_closing(f) ==
    [panic |-> f = "none", file |-> IF f = "none" THEN "unwrap_none" ELSE "none",
     closes |-> IF f = "none" THEN 0 ELSE 1]
\* impl Drop for Inner: self.file.take().unwrap() aborts the drop when run has
\* already taken the file; otherwise the file is forgotten, which closes nothing
Inner_drop(f) ==
    [panic |-> f = "none", file |-> IF f = "none" THEN "unwrap_none" ELSE "none",
     closes |-> 0]

\* dropping Inner::writer, the std::fs::File made from the same raw descriptor,
\* closes the descriptor; the fields are dropped also when Drop::drop aborted
writer_drop == [closes |-> 1]

\* the spawned task: match inner.run().await { .. } and then the end of the async
\* block, where Inner is dropped; also an abort of run drops Inner.  f is
\* Inner::file as the step of run leaves it.
TaskTeardown(f) ==
    IF pc' \in {"done_ok", "done_err", "panicked"}
    THEN /\ file' = Inner_drop(f).file
         /\ closes' = closes + Inner_drop(f).closes + writer_drop.closes
    ELSE /\ file' = f
         /\ closes' = closes

\* run, after the loop: self.file.take().unwrap() and mem::forget(file)
run_exit_file(f) == "none"

\* run: the while condition and, when it holds, the select! preconditions of the
\* cancelled() branch and of the read branch, which the task evaluates without an
\* await in between; when the condition fails, the file is taken and forgotten
\* and run returns Ok(())
RunWhile ==
    /\ pc = "while"
    /\ IF ~cancelled \/ is_busy
       THEN /\ pc' = "select"
            /\ iterCancelled' = cancelled
            /\ guardCancel' = ~cancelled
            /\ guardRead' = ReadBranchEnabled
            /\ TaskTeardown(file)
       ELSE /\ pc' = "done_ok"
            /\ TaskTeardown(run_exit_file(file))
            /\ UNCHANGED <<iterCancelled, guardCancel, guardRead>>
    /\ enodev' = FALSE
    /\ UNCHANGED <<cancelled, buffer, outQ, outRxOpen, pendingReq, inQ, held,
                   handlerKind, readLog, delivered, enqLog, devWrites, pureVars>>

\* select!: the cancelled() branch completes; its body is empty
SelectCancelled ==
    /\ pc = "select"
    /\ guardCancel
    /\ cancelled
    /\ pc' = "while"
    /\ UNCHANGED <<cancelled, guardCancel, guardRead, iterCancelled, buffer, outQ,
                   outRxOpen, pendingReq, inQ, held, handlerKind, readLog, delivered,
                   enqLog, devWrites, enodev, file, closes,
                   pureVars>>

\* mpsc::Sender::send puts the value at the back of the channel
ChannelSend(q, x) == Append(q, x)
\* a receiver that takes the value at the back of the channel
ChannelLast(q) == q[Len(q)]
\* mpsc::Receiver::recv takes the value at the front of the channel
ChannelNext(q) == Head(q)
ChannelRest(q) == Tail(q)

\* a write of the whole buffer instead of the serialized prefix
DeviceBytesWhole(buf, count) == buf
\* what writer.write(&buffer[..count]) is handed
DeviceBytes(buf, count) == Take(buf, count)

\* byte counts a short device write may report
ShortCounts(count) == {count - 1}
MaxShortWrites == 1
ShortWrites == Cardinality({i \in DOMAIN devWrites : devWrites[i].result = "short"})

\* select!: recv() completes, then on_fs_reply(reply)
SelectReply ==
    /\ pc = "select"
    /\ ~is_empty \/ is_closed
    /\ IF is_empty
       THEN \* recv() returned None: on_fs_reply returns Err(EIO)
            /\ pc' = "done_err"
            /\ UNCHANGED <<buffer, inQ, devWrites>>
       ELSE LET item == ChannelNext(inQ)
                w == Reply_write(item.reply, buffer)
            IN  /\ inQ' = ChannelRest(inQ)
                /\ IF w.panic
                   THEN /\ pc' = "panicked"
                        /\ UNCHANGED <<buffer, devWrites>>
                   ELSE /\ buffer' = w.buffer
                        /\ \/ /\ pc' = "while"
                              /\ devWrites' = Append(devWrites,
                                    [bytes |-> DeviceBytes(w.buffer, w.count),
                                     accepted |-> w.count, result |-> "full",
                                     seq |-> item.seq])
                           \/ /\ ShortWrites < MaxShortWrites
                              /\ pc' = "while"
                              /\ \E r \in ShortCounts(w.count) :
                                    devWrites' = Append(devWrites,
                                        [bytes |-> DeviceBytes(w.buffer, w.count),
                                         accepted |-> r, result |-> "short",
                                         seq |-> item.seq])
                           \/ /\ pc' = "done_err"
                              /\ devWrites' = Append(devWrites,
                                    [bytes |-> DeviceBytes(w.buffer, w.count),
                                     accepted |-> 0, result |-> "err",
                                     seq |-> item.seq])
    /\ UNCHANGED <<cancelled, guardCancel, guardRead, iterCancelled, outQ, outRxOpen,
                   pendingReq, held, handlerKind, readLog, delivered, enqLog,
                   enodev, pureVars>>
    /\ TaskTeardown(file)

\* on_read, Err(e) arm: what the match on raw_os_error() does
\* "continue": return Ok(()); "cancel": cancel the token, return Ok(());
\* "panic": todo!()
\* a match that retries on ENODEV as it does on EINTR
on_read_error_retry_all(errno) ==
    CASE errno \in {ENOENT, EINTR, EAGAIN, ENODEV} -> "continue"
      [] OTHER -> "panic"
\* a match that takes EINTR for an unmount
on_read_error_eintr_cancels(errno) ==
    CASE errno \in {ENOENT, EAGAIN} -> "continue"
      [] errno \in {EINTR, ENODEV} -> "cancel"
      [] OTHER -> "panic"
on_read_error(errno) ==
    CASE errno \in {ENOENT, EINTR, EAGAIN} -> "continue"
      [] errno = ENODEV -> "cancel"
      [] OTHER -> "panic"

\* a send that delivers the Request twice
OutboundSendTwice(q, request) == ChannelSend(ChannelSend(q, request), request)
\* on_read, Ok arm: where the parsed Request goes
OutboundSend(q, request) == ChannelSend(q, request)

\* select!: the device read completes with an error, then on_read
on_read_Err(errno) ==
    /\ pc = "select"
    /\ guardRead
    /\ LET what == on_read_error(errno) IN
          /\ pc' = IF what = "panic" THEN "panicked" ELSE "while"
          /\ cancelled' = IF what = "cancel" THEN cancel(cancelled) ELSE cancelled
    /\ enodev' = (errno = ENODEV)
    /\ UNCHANGED <<guardCancel, guardRead, iterCancelled, buffer, outQ, outRxOpen,
                   pendingReq, inQ, held, handlerKind, readLog, delivered, enqLog,
                   devWrites, pureVars>>
    /\ TaskTeardown(file)

\* select!: the device read completes with any of the errors the device can give
SelectReadError == \E errno \in ReadErrnos : on_read_Err(errno)

\* select!: the device read completes with a frame, then on_read:
\* Request::parse on the whole buffer, then send(request).await
SelectReadFrame ==
    /\ pc = "select"
    /\ guardRead
    /\ Len(readLog) < FrameBudget
    /\ \E kind \in FrameKinds :
          LET frame == KernelFrame(kind, Len(readLog) + 1)
              buf == Overlay(buffer, 0, frame)
              r == Request_parse(buf)
          IN  /\ buffer' = buf
              /\ readLog' = Append(readLog, [kind |-> kind, unique |-> Len(readLog) + 1])
              /\ CASE r.tag = "Panic" ->
                        pc' = "panicked" /\ UNCHANGED <<outQ, pendingReq>>
                   [] r.tag = "Err" ->
                        pc' = "done_err" /\ UNCHANGED <<outQ, pendingReq>>
                   [] OTHER ->
                        LET request == [header |-> r.header, operation |-> r.operation] IN
                        IF ~outRxOpen
                        THEN pc' = "done_err" /\ UNCHANGED <<outQ, pendingReq>>
                        ELSE IF Len(outQ) < RequestCap
                        THEN /\ outQ' = OutboundSend(outQ, request)
                             /\ pc' = "while"
                             /\ UNCHANGED pendingReq
                        ELSE /\ pendingReq' = <<request>>
                             /\ pc' = "sending"
                             /\ UNCHANGED outQ
    /\ UNCHANGED <<cancelled, guardCancel, guardRead, iterCancelled, outRxOpen, inQ,
                   held, handlerKind, delivered, enqLog, devWrites, enodev, pureVars>>
    /\ TaskTeardown(file)

\* on_read: send(request).await completes, after waiting for capacity
SendResume ==
    /\ pc = "sending"
    /\ IF ~outRxOpen
       THEN pc' = "done_err" /\ UNCHANGED outQ
       ELSE /\ Len(outQ) < RequestCap
            /\ outQ' = OutboundSend(outQ, pendingReq[1])
            /\ pc' = "while"
    /\ pendingReq' = <<>>
    /\ UNCHANGED <<cancelled, guardCancel, guardRead, iterCancelled, buffer, outRxOpen,
                   inQ, held, handlerKind, readLog, delivered, enqLog, devWrites,
                   enodev, pureVars>>
    /\ TaskTeardown(file)

----------------------------------------------------------------------------
(* The filesystem handler, which owns the RequestRx and every received Request *)

\* RequestRx::recv
HandlerRecv ==
    /\ outRxOpen
    /\ outQ # <<>>
    /\ Sequential => held = {}
    /\ held' = held \cup {[request |-> ChannelNext(outQ), sent |-> 0]}
    /\ delivered' = Append(delivered, [opcode |-> ChannelNext(outQ).header.opcode,
                                        unique |-> ChannelNext(outQ).header.unique,
                                        operation |-> ChannelNext(outQ).operation])
    /\ outQ' = ChannelRest(outQ)
    /\ UNCHANGED <<pc, cancelled, guardCancel, guardRead, iterCancelled, buffer,
                   outRxOpen, pendingReq, inQ, handlerKind, readLog, enqLog,
                   devWrites, enodev, file, closes,
                   pureVars>>

\* reply_to.send(reply).await completes: the session is alive and there is capacity
Enqueue(h, reply, via) ==
    /\ ~Ended
    /\ Len(inQ) < ChannelCap
    /\ Len(enqLog) < ReplyBudget
    /\ Sequential => h.sent = 0
    /\ LET item == [reply |-> reply, seq |-> Len(enqLog) + 1, via |-> via,
                    unique |-> h.request.header.unique]
       IN  /\ inQ' = ChannelSend(inQ, item)
           /\ enqLog' = Append(enqLog, item)
    /\ held' = IF Sequential THEN (held \ {h}) \cup {[h EXCEPT !.sent = 1]} ELSE held
    /\ UNCHANGED <<pc, cancelled, guardCancel, guardRead, iterCancelled, buffer, outQ,
                   outRxOpen, pendingReq, handlerKind, readLog, delivered, devWrites,
                   enodev, file, closes,
                   pureVars>>

\* Request::send_ok
HandlerSendOk ==
    \E h \in held :
        /\ "send_ok" \in HandlerPolicy(h.request)
        /\ Enqueue(h, Reply_from(h.request), "send_ok")

\* Request::send_error
HandlerSendError ==
    \E h \in held :
        /\ "send_error" \in HandlerPolicy(h.request)
        /\ Enqueue(h, send_error_reply(h.request, ENOENT), "send_error")

\* Request::send
HandlerSend ==
    \E h \in held :
        /\ "send" \in HandlerPolicy(h.request)
        /\ \E reply \in CustomReplies(h.request) : Enqueue(h, reply, "send")

\* the handler drops a Request, and with it the reply_to clone
HandlerDrop ==
    /\ \E h \in held :
          /\ Sequential => h.sent = 1
          /\ held' = held \ {h}
    /\ UNCHANGED <<pc, cancelled, guardCancel, guardRead, iterCancelled, buffer, outQ,
                   outRxOpen, pendingReq, inQ, handlerKind, readLog, delivered, enqLog,
                   devWrites, enodev, file, closes,
                   pureVars>>

\* the handler drops the RequestRx: queued Requests are dropped with it
HandlerCloseRx ==
    /\ outRxOpen
    /\ Sequential => held = {}
    /\ outRxOpen' = FALSE
    /\ outQ' = <<>>
    /\ UNCHANGED <<pc, cancelled, guardCancel, guardRead, iterCancelled, buffer,
                   pendingReq, inQ, held, handlerKind, readLog, delivered, enqLog,
                   devWrites, enodev, file, closes,
                   pureVars>>

LoopStep ==
    \/ RunWhile
    \/ SelectCancelled
    \/ SelectReply
    \/ SendResume

HandlerStep ==
    \/ HandlerRecv
    \/ HandlerSendOk
    \/ HandlerSendError
    \/ HandlerSend
    \/ HandlerDrop

Next ==
    \/ Cancel
    \/ RunWhile
    \/ SelectCancelled
    \/ SelectReply
    \/ SelectReadError
    \/ SelectReadFrame
    \/ SendResume
    \/ HandlerRecv
    \/ HandlerSendOk
    \/ HandlerSendError
    \/ HandlerSend
    \/ HandlerDrop
    \/ HandlerCloseRx

NextSeq ==
    \/ Cancel
    \/ RunWhile
    \/ SelectCancelled
    \/ SelectReply
    \/ SelectReadError
    \/ SelectReadFrame
    \/ SendResume
    \/ HandlerRecv
    \/ HandlerSendOk
    \/ HandlerDrop
    \/ HandlerCloseRx


\* one session with a concurrent handler
Spec == Init /\ [][Next]_vars

\* one session with a sequential handler: the loop takes a step whenever one stays
\* possible (a ready reply is not passed over for ever by the select!), and so
\* does the handler
FairSeqSpec ==
    /\ InitSeq
    /\ [][NextSeq]_vars
    /\ WF_vars(LoopStep)
    /\ SF_vars(SelectReply)
    /\ WF_vars(HandlerStep)

----------------------------------------------------------------------------
(* Request::parse on its own, over byte slices the kernel side may hand it *)

\* "foo.txt"
FooTxt == <<102, 111, 111, 46, 116, 120, 116>>

\* MKNOD with mode 0o644, rdev 0, umask 0o755 and the name "foo.txt"
MknodFooTxt == Frame(8, 1, U32(420) \o U32(0) \o U32(493) \o U32(0) \o FooTxt \o <<0>>)

\* well-formed frames of the opcode families; every prefix of each is an input
ParseFrames ==
    { Frame(1, 1, <<97, 98, 0>>),                                   \* LOOKUP "ab"
      Frame(2, 1, U64(3)),                                          \* FORGET
      Frame(3, 1, Zeros(16)),                                       \* GETATTR
      Frame(8, 1, U32(420) \o Zeros(12) \o <<102, 0>>),             \* MKNOD "f"
      Frame(16, 1, Zeros(16) \o U32(2) \o Zeros(20) \o <<1, 2>>),   \* WRITE, size 2
      Frame(16, 1, Zeros(16) \o U32(3) \o Zeros(20) \o <<1, 2>>),   \* WRITE, size 3
      Frame(42, 1, U32(1) \o U32(0) \o Zeros(16)),                  \* BATCH_FORGET, 1
      Frame(42, 1, U32(2) \o U32(0) \o Zeros(16)),                  \* BATCH_FORGET, 2
      Frame(7, 1, <<>>),                                            \* no such opcode
      Frame(26, 1, Zeros(16)),                                      \* INIT
      Frame(39, 1, Zeros(32) \o <<1, 2>>),                          \* IOCTL, 2 bytes
      MknodFooTxt,
      Frame(9, 1, U32(493) \o U32(0) \o <<100, 255, 0>>),           \* MKDIR, name d 0xFF
      Frame(13, 1, U64(3) \o <<108, 0>>),                           \* LINK "l"
      Frame(35, 1, Zeros(ArgSize(35)) \o <<99, 0>>) }               \* CREATE "c"

\* one frame for every opcode, and for some values that are no opcode: zeroed
\* argument record, empty names, no payload
OpcodeFrames ==
    {Frame(opcode, 1, Zeros(ArgSize(opcode) + 2)) :
        opcode \in Opcodes \cup {0, 7, 19, 53, 61, 4095, 4097}}

\* Inner::buffer after a read: the frame, then what the buffer held before
BufferImages ==
    {Overlay(old, 0, f) :
        old \in {Zeros(2 * BufferLen), [i \in 1..(2 * BufferLen) |-> 255]},
        f \in ParseFrames}

\* the slices parse is run on: every prefix of every frame, the frames of
\* OpcodeFrames, and the buffer images
ParseInputs ==
    UNION { {Take(f, n) : n \in 0..Len(f)} : f \in ParseFrames }
        \cup OpcodeFrames \cup BufferImages

ParseInit ==
    /\ InitSession
    /\ NoBuildRun
    /\ NoReplyRun
    /\ handlerKind = "parser"
    /\ slice \in ParseInputs
    /\ parsed = NotParsed

\* Request::parse(slice, reply_to)
ParseApply ==
    /\ handlerKind = "parser"
    /\ parsed.tag = "None"
    /\ parsed' = Request_parse(slice)
    /\ UNCHANGED <<sessionVars, slice, builder, built, replyIn, wrote>>

ParseSpec == ParseInit /\ [][ParseApply]_vars

----------------------------------------------------------------------------
(* Reply::write and the device write of on_fs_reply, run on their own *)

\* longest data or name of a Reply, most entries of a ReadDir
MaxData == 3
MaxEntries == 2

Bytes(n) == [i \in 1..n |-> 160 + i]
Stale(n) == [i \in 1..n |-> 255]

ReplyDatas == {Bytes(n) : n \in 0..MaxData}

\* DirectoryEntry { entry: fuse_dirent { ino, off, namelen, typ }, name }; namelen
\* is what the caller put there
DirectoryEntry(ino, off, namelen, typ, name) ==
    [ino |-> ino, off |-> off, namelen |-> namelen, typ |-> typ, name |-> name]

\* the entries "hello" (a directory) and "world.rs" (a regular file)
HelloWorldEntries ==
    << DirectoryEntry(43707, 1, 5, 4, <<104, 101, 108, 108, 111>>),
       DirectoryEntry(52445, 2, 8, 8, <<119, 111, 114, 108, 100, 46, 114, 115>>) >>

RECURSIVE EntryLists(_)
EntryLists(n) ==
    IF n = 0 THEN {<<>>}
    ELSE EntryLists(n - 1) \cup
         {Append(es, DirectoryEntry(7, 1, namelen, 8, name)) :
              es \in {l \in EntryLists(n - 1) : Len(l) = n - 1},
              name \in ReplyDatas, namelen \in {0, 99}}

ReplyOperations ==
    {NoOperation, FixedOperation(U32(4) \o U32(0))}
    \cup {ReadOperation(d) : d \in ReplyDatas}
    \cup {ReadLinkOperation(d) : d \in ReplyDatas}
    \cup {ListXAttrOperation(d) : d \in ReplyDatas}
    \cup {GetXAttrOperation(U32(Len(d)) \o U32(0), d) : d \in ReplyDatas}
    \cup {ReadDirOperation(es) : es \in EntryLists(MaxEntries) \cup {HelloWorldEntries}}

\* header.error and header.len as the caller may leave them
ReplyErrors == {0, Errno_into_i32(ENOENT)}
ReplyLens == {0, 7}

ReplyInputs ==
    {[reply |-> [Reply_new(U64(5), e, op) EXCEPT !.header.len = l], buffer |-> b] :
        e \in ReplyErrors, op \in ReplyOperations, l \in ReplyLens,
        b \in {Zeros(BufferLen), Stale(2 * BufferLen)}}

ReplyInit ==
    /\ InitSession
    /\ NoParserRun
    /\ NoBuildRun
    /\ handlerKind = "replier"
    /\ replyIn \in ReplyInputs
    /\ wrote = NotWritten

\* on_fs_reply: reply.write(&mut self.buffer), then writer.write(&self.buffer[..count])
ReplyApply ==
    /\ handlerKind = "replier"
    /\ wrote.tag = "None"
    /\ wrote' = LET w == Reply_write(replyIn.reply, replyIn.buffer) IN
                [tag |-> "Some", panic |-> w.panic, buffer |-> w.buffer,
                 count |-> w.count,
                 bytes |-> IF w.panic THEN <<>> ELSE DeviceBytes(w.buffer, w.count)]
    /\ UNCHANGED <<sessionVars, slice, parsed, builder, built, replyIn>>

ReplySpec == ReplyInit /\ [][ReplyApply]_vars

----------------------------------------------------------------------------
(* builder.rs: Builder, its setters and build *)

\* most build() calls made on one Builder
MaxBuilds == 2

DevicePaths == {"missing", "regular", "chardev"}
\* lists given to set_mount_options
OptionLists == {<<>>, <<"NoDev">>, <<"AutoUnmount", "AllowRoot">>}
\* what Mount::new does: 0 when it mounts, else the errno it fails with
MountOutcomes == {0, EIO}

\* a check that takes every existing path for a character device
is_char_device_any(device_path) == device_path # "missing"
\* tokio::fs::metadata(&self.device_path).await?.file_type().is_char_device()
is_char_device(device_path) == device_path = "chardev"

\* a push that leaves a list alone which already holds AllowOther
push_AllowOther_once(options) ==
    IF \E k \in DOMAIN options : options[k] = "AllowOther"
    THEN options ELSE Append(options, "AllowOther")
\* self.mount_options.push(MountOption::AllowOther)
push_AllowOther(options) == Append(options, "AllowOther")

\* return Err(errno) before anything was done
BuildErr(b, errno) ==
    [result |-> "Err", errno |-> errno, mount_attempted |-> FALSE,
     mounted_with |-> <<>>, spawned |-> FALSE, builder |-> b]

\* Builder::build on the builder b, where Mount::new has the outcome m: what it
\* returns, what it did, and the builder it leaves
build(b, m) ==
    IF b.outbound_fs_request_tx = "None" THEN BuildErr(b, EINVAL)
    ELSE IF b.device_path = "missing" THEN BuildErr(b, ENOENT)
    ELSE IF b.mount_path = "None" THEN BuildErr(b, EINVAL)
    ELSE IF ~is_char_device(b.device_path) THEN BuildErr(b, ENODEV)
    ELSE LET options == push_AllowOther(b.mount_options)
             pushed == [b EXCEPT !.mount_options = options]
         IN  [result |-> IF m = 0 THEN "Ok" ELSE "Err", errno |-> m,
              mount_attempted |-> TRUE, mounted_with |-> options,
              spawned |-> m = 0, builder |-> pushed]

BuildInit ==
    /\ InitSession
    /\ NoParserRun
    /\ NoReplyRun
    /\ handlerKind = "builder"
    /\ builder = Builder_new
    /\ built = <<>>

\* the setters, called before the first build()
set_outbound_fs_request_tx ==
    /\ handlerKind = "builder" /\ built = <<>>
    /\ builder' = [builder EXCEPT !.outbound_fs_request_tx = "Some"]
    /\ UNCHANGED <<sessionVars, slice, parsed, built, replyIn, wrote>>

set_device_path ==
    /\ handlerKind = "builder" /\ built = <<>>
    /\ \E path \in DevicePaths : builder' = [builder EXCEPT !.device_path = path]
    /\ UNCHANGED <<sessionVars, slice, parsed, built, replyIn, wrote>>

set_mount_path ==
    /\ handlerKind = "builder" /\ built = <<>>
    /\ builder' = [builder EXCEPT !.mount_path = "Some"]
    /\ UNCHANGED <<sessionVars, slice, parsed, built, replyIn, wrote>>

set_mount_options ==
    /\ handlerKind = "builder" /\ built = <<>>
    /\ \E options \in OptionLists : builder' = [builder EXCEPT !.mount_options = options]
    /\ UNCHANGED <<sessionVars, slice, parsed, built, replyIn, wrote>>

\* Builder::build; built keeps the builder as it was before the call
BuildApply ==
    /\ handlerKind = "builder"
    /\ Len(built) < MaxBuilds
    /\ \E m \in MountOutcomes :
          LET r == build(builder, m) IN
          /\ built' = Append(built, [before |-> builder, did |-> r])
          /\ builder' = r.builder
    /\ UNCHANGED <<sessionVars, slice, parsed, replyIn, wrote>>

BuildNext ==
    \/ set_outbound_fs_request_tx
    \/ set_device_path
    \/ set_mount_path
    \/ set_mount_options
    \/ BuildApply

BuildSpec == BuildInit /\ [][BuildNext]_vars

----------------------------------------------------------------------------
(* Termination, drain and the two bounded channels *)

\* cancellation was requested, no reply is queued, no Request (and so no reply_to
\* clone) is alive outside Inner, and the loop is at the top of an iteration or in
\* the select! of an iteration that began after the cancellation
Drained ==
    /\ cancelled
    /\ inQ = <<>>
    /\ held = {}
    /\ outQ = <<>>
    /\ pendingReq = <<>>
    /\ pc = "while" \/ (pc = "select" /\ iterCancelled)

\* C1: after cancellation, once every queued reply has been written and no handler
\* holds a reply sender, Inner::run eventually leaves its loop and returns Ok(()).
C1_TerminatesAfterDrain == Drained ~> (pc = "done_ok")

\* the k-th enqueued Reply has been handed to the device write
Written(k) == \E i \in DOMAIN devWrites : devWrites[i].seq = k

\* C3: every Reply a handler has enqueued on the inbound reply channel, before or
\* after cancellation, is eventually written to the device, unless the session
\* ends with an error; the loop and the handler are scheduled fairly.
C3_RepliesFlushed ==
    \A k \in 1..(ChannelCap + RequestCap + 2) :
        (Len(enqLog) >= k) ~> (Written(k) \/ Ended)

\* the loop waits in send(request).await on a full request channel
LoopBlockedSending == pc = "sending" /\ outRxOpen /\ Len(outQ) = RequestCap
\* the sequential handler waits in reply_to.send(reply).await on a full reply channel
HandlerBlockedSending ==
    /\ Sequential
    /\ Len(inQ) = ChannelCap
    /\ \E h \in held : h.sent = 0

\* C8: the loop and a handler that answers each request before it receives the
\* next never reach a state where the loop is blocked sending on the full request
\* channel while the handler is blocked sending on the full reply channel.
C8_NoChannelDeadlock == ~(LoopBlockedSending /\ HandlerBlockedSending)

----------------------------------------------------------------------------
(* Cancellation and the read branch *)

\* C2: in an iteration of the run loop that began after the token was cancelled
\* no device read is started: only the reply-receive branch of the select! is
\* enabled, no frame is read and no Request is sent on the request channel; and
\* every later iteration is such an iteration.
C2_NoReadAfterCancel ==
    [][iterCancelled =>
          /\ iterCancelled'
          /\ ~guardRead' /\ ~guardCancel'
          /\ readLog' = readLog
          /\ pendingReq' = pendingReq
          /\ Len(outQ') <= Len(outQ)]_vars

\* a whole iteration ran after the cancellation, in a session that had read a frame
C2_Witness == iterCancelled /\ pc = "while" /\ readLog # <<>>

----------------------------------------------------------------------------
(* Order of replies and of requests *)

\* the unique in the header of serialized reply bytes
unique_of(bytes) == SubSeq(bytes, 9, 16)

\* C4: replies are written to the device in the order in which they were enqueued
\* on the reply channel, whatever the order of the requests they answer.
C4_ReplyFifo ==
    \A i \in DOMAIN devWrites :
        /\ devWrites[i].seq = i
        /\ unique_of(devWrites[i].bytes) = enqLog[i].reply.header.unique

\* the reply for unique 2 was enqueued and written before the reply for unique 1
C4_Witness ==
    /\ Len(devWrites) >= 2
    /\ unique_of(devWrites[1].bytes) = U64(2)
    /\ unique_of(devWrites[2].bytes) = U64(1)

----------------------------------------------------------------------------
(* Failures of Request::parse *)

\* the step is a device read of a frame whose header parses and whose parse fails
ParseFailureStep ==
    /\ Len(readLog') = Len(readLog) + 1
    /\ Request_parse(buffer').tag = "Err"

\* the reply that answers a frame with an error: the header alone
error_reply_bytes(unique, errno) == U32(SIZE_OUT_HEADER) \o I32(0 - errno) \o unique

\* C6: when Request::parse fails on a frame whose header was parsed, the session
\* writes a reply carrying EIO and the frame's unique to the device and keeps
\* running.
C6_ParseFailureContinues ==
    [][ParseFailureStep =>
          /\ pc' = "while"
          /\ Len(devWrites') = Len(devWrites) + 1
          /\ devWrites'[Len(devWrites')].bytes
                = error_reply_bytes(fuse_in_header(buffer').unique, EIO)]_vars

\* C7: Request::parse returns a Request or Err(EIO) for every byte slice, and
\* never aborts.
C7_ParseTotal ==
    /\ parsed.tag \in {"None", "Ok", "Err"}
    /\ parsed.tag = "Err" => parsed.errno = EIO

----------------------------------------------------------------------------
(* What reaches the device *)

\* the bytes Reply::write produces for a reply in a buffer that holds nothing else
reply_image(reply) ==
    LET w == Reply_write(reply, Zeros(BufferLen)) IN Take(w.buffer, w.count)

\* C9: each device write carries exactly the bytes the serializer produced for
\* one reply: no byte of another reply or of a request frame.
C9_WriteIsOneReply ==
    \A i \in DOMAIN devWrites :
        devWrites[i].bytes = reply_image(enqLog[devWrites[i].seq].reply)

\* a reply with a payload was written while the buffer still held the tail of a
\* longer request frame, after another reply had been written
C9_Witness ==
    /\ Len(devWrites) >= 2
    /\ enqLog[devWrites[2].seq].via = "send"
    /\ Len(devWrites[2].bytes) < SIZE_IN_HEADER
    /\ buffer[SIZE_IN_HEADER + 1] # 0

\* C10: a Reply built from a Request by Reply::from, send_ok or send_error carries
\* the request's unique, and Reply::write puts it unchanged into the bytes handed
\* to the device, in whatever order replies are flushed.
C10_UniquePreserved ==
    /\ \A k \in DOMAIN enqLog :
          enqLog[k].via \in {"send_ok", "send_error"}
              => enqLog[k].reply.header.unique = enqLog[k].unique
    /\ \A i \in DOMAIN devWrites :
          enqLog[devWrites[i].seq].via \in {"send_ok", "send_error"}
              => unique_of(devWrites[i].bytes) = enqLog[devWrites[i].seq].unique

\* a send_error reply and then a send_ok reply were written, the second request
\* answered first
C10_Witness ==
    /\ Len(devWrites) >= 2
    /\ enqLog[devWrites[1].seq].via = "send_error"
    /\ enqLog[devWrites[2].seq].via = "send_ok"
    /\ enqLog[devWrites[1].seq].unique = U64(2)

----------------------------------------------------------------------------
(* Claims on Reply::write *)

RECURSIVE EntriesLen(_)
\* bytes of a list of directory entries: 24 of fuse_dirent and the name, each entry
\* filled up to a multiple of 8
EntriesLen(entries) ==
    IF entries = <<>> THEN 0
    ELSE LET n == 24 + Len(Head(entries).name)
         IN  ((n + 7) \div 8) * 8 + EntriesLen(Tail(entries))

\* bytes of the payload of an operation
PayloadLen(op) == Len(op.arg) + Len(op.data) + EntriesLen(op.entries)

WroteOk == wrote.tag = "Some" /\ ~wrote.panic

\* C11: whatever header.len the caller left in the Reply, the len field of the
\* bytes Reply::write produces equals the count it returns, which is 16 plus the
\* payload bytes, and that count is the length of what the device write is handed.
C11_LenIsCount ==
    WroteOk =>
        /\ wrote.count = SIZE_OUT_HEADER + PayloadLen(replyIn.reply.operation)
        /\ u32_at(wrote.buffer, 0) = wrote.count
        /\ Len(wrote.bytes) = wrote.count
        /\ u32_at(wrote.bytes, 0) = wrote.count

\* a Reply whose header.len the caller had set to 7 was written with a payload over
\* a buffer of stale bytes
C11_Witness ==
    /\ WroteOk
    /\ replyIn.reply.header.len = 7
    /\ replyIn.reply.operation.kind = "GetXAttr"
    /\ replyIn.buffer[1] = 255
    /\ wrote.count = SIZE_OUT_HEADER + 8 + MaxData

\* C12: a Reply with header.error # 0 is written as the 16 header bytes alone, with
\* len = 16, whether or not it has a payload.
C12_ErrorIsHeaderOnly ==
    (WroteOk /\ replyIn.reply.header.error # 0) =>
        /\ wrote.count = SIZE_OUT_HEADER
        /\ Len(wrote.bytes) = SIZE_OUT_HEADER
        /\ u32_at(wrote.bytes, 0) = SIZE_OUT_HEADER

\* n filled up to the next multiple of 8
roundup8(n) == ((n + 7) \div 8) * 8

\* a ReadDir reply was written
WroteReadDir == WroteOk /\ replyIn.reply.operation.kind = "ReadDir"

\* the written bytes hold the entry e at the offset start: the fuse_dirent record
\* with namelen the length of the name, the name, and zeros up to the boundary
EntryPackedAt(start, e) ==
    LET n == Len(e.name)
        end == start + roundup8(24 + n)
    IN  /\ start % 8 = 0
        /\ SubSeq(wrote.buffer, start + 1, start + 8) = U64(e.ino)
        /\ u32_at(wrote.buffer, start + 16) = n
        /\ SubSeq(wrote.buffer, start + 25, start + 24 + n) = e.name
        /\ \A k \in (start + 24 + n + 1)..end : wrote.buffer[k] = 0

\* the size and the layout of a written ReadDir reply
ReadDirPacked ==
    WroteReadDir =>
        LET es == replyIn.reply.operation.entries IN
        /\ wrote.count = SIZE_OUT_HEADER + EntriesLen(es)
        /\ \A i \in DOMAIN es :
              EntryPackedAt(SIZE_OUT_HEADER + EntriesLen(Take(es, i - 1)), es[i])

\* the bytes written for the entries "hello" and "world.rs"
HelloWorldCount(n) ==
    (WroteReadDir /\ replyIn.reply.operation.entries = HelloWorldEntries)
        => wrote.count = n

\* C29: Reply::write of a ReadDir reply with entries e1..en produces
\* 16 + the sum of roundup8(24 + byte length of name_i) bytes; each entry starts
\* on an 8-byte boundary, its namelen is the unpadded length of its name whatever
\* the caller put there, and the padding is zero also over a buffer that held
\* other bytes; the entries "hello" and "world.rs" give 16 + 32 + 32 = 80 bytes.
C29_ReadDirPacking == ReadDirPacked /\ HelloWorldCount(80)

\* the same packing, with 96 bytes for the entries "hello" and "world.rs"
C29_AsStated == ReadDirPacked /\ HelloWorldCount(96)

\* "hello" and "world.rs" were written over a buffer of stale bytes: the three
\* bytes after "hello" are zero and the second entry starts at offset 48
C29_Witness ==
    /\ WroteReadDir
    /\ replyIn.reply.operation.entries = HelloWorldEntries
    /\ replyIn.buffer[46] = 255
    /\ SubSeq(wrote.buffer, 46, 48) = <<0, 0, 0>>
    /\ SubSeq(wrote.buffer, 49, 56) = U64(52445)
    /\ wrote.count = 80

\* size_of::<fuse_getxattr_out>()
SIZE_GETXATTR_OUT == 8

\* a GetXAttr or a ListXAttr reply was written
WroteXattr ==
    WroteOk /\ replyIn.reply.operation.kind \in {"GetXAttr", "ListXAttr"}

\* C32: the replies GetXAttr and ListXAttr are both written as the fixed
\* fuse_getxattr_out record followed by the raw data bytes, so the payload is
\* the size of that record plus the length of the data.
C32_XattrPrefixThenData ==
    WroteXattr =>
        LET op == replyIn.reply.operation
            from == SIZE_OUT_HEADER + SIZE_GETXATTR_OUT
        IN  /\ wrote.count = from + Len(op.data)
            /\ SubSeq(wrote.buffer, from + 1, from + Len(op.data)) = op.data
            /\ op.kind = "GetXAttr"
                  => SubSeq(wrote.buffer, SIZE_OUT_HEADER + 1, from) = op.arg

----------------------------------------------------------------------------
(* Claims on the handlers of the loop *)

\* the step is a device write of on_fs_reply whose outcome is result
DeviceWriteStep(result) ==
    /\ Len(devWrites') = Len(devWrites) + 1
    /\ devWrites'[Len(devWrites')].result = result

\* C13: when the device write accepts fewer bytes than the serialized length,
\* on_fs_reply returns an error and run ends with it.
C13_ShortWriteFatal == [][DeviceWriteStep("short") => pc' = "done_err"]_vars

\* C14: when a device read fails with ENODEV, on_read cancels the token and
\* returns Ok: run goes back to its while condition, and the iteration that
\* follows starts no device read.
C14_EnodevDrains ==
    [][/\ on_read_Err(ENODEV) => (cancelled' /\ pc' = "while")
       /\ (enodev /\ pc = "while" /\ pc' # "while")
              => /\ cancelled
                 /\ pc' \in {"select", "done_ok"}
                 /\ pc' = "select" => (~guardRead' /\ iterCancelled')
                 /\ readLog' = readLog]_vars

\* a session that had read a frame and had not been cancelled met ENODEV: on_read
\* has returned and the token is cancelled
C14_Witness ==
    /\ enodev
    /\ pc = "while"
    /\ cancelled /\ ~iterCancelled
    /\ readLog # <<>>

\* C15: when a device read fails with ENOENT, EINTR or EAGAIN, on_read returns Ok
\* and changes nothing: the token stays as it was, no Request is sent, no reply is
\* written, and the next iteration starts with reads still enabled.
C15_RetryableReadErrors ==
    [][/\ \A errno \in {ENOENT, EINTR, EAGAIN} :
              on_read_Err(errno) =>
                  /\ pc' = "while"
                  /\ cancelled' = cancelled
                  /\ UNCHANGED <<buffer, outQ, pendingReq, inQ, readLog, delivered,
                                 enqLog, devWrites>>
       /\ (pc = "while" /\ ~cancelled /\ pc' # "while")
              => (pc' = "select" /\ guardRead')]_vars

\* a read failed before any frame was read and the token is not cancelled: run is
\* back at its while condition after an iteration in which reads were enabled
C15_Witness ==
    /\ pc = "while"
    /\ guardRead /\ ~cancelled /\ ~enodev
    /\ readLog = <<>>

\* C16: when a device read fails with an OS error other than ENOENT, EINTR, EAGAIN
\* and ENODEV, on_read returns Err with that error and run returns it.
C16_OtherReadErrorReturned == [][on_read_Err(EIO) => pc' = "done_err"]_vars

\* the step is on_read finding the request channel closed when it sends the Request
\* it has parsed, at once or after waiting for capacity
SendFailsStep ==
    /\ ~outRxOpen
    /\ \/ pc = "sending" /\ pc' # "sending"
       \/ /\ pc = "select"
          /\ Len(readLog') = Len(readLog) + 1
          /\ Request_parse(buffer').tag = "Ok"

\* C17: when the send of a parsed Request fails because the receiver of the
\* request channel is gone, the session enters drain (the token is cancelled and
\* the loop goes on, so that queued replies are still written) and does not stop.
C17_SendFailureDrains == [][SendFailsStep => (cancelled' /\ pc' = "while")]_vars

----------------------------------------------------------------------------
(* Claims on the token and on the device descriptor *)

\* C18: once is_cancelled() is true it stays true: no step of the session, of the
\* handlers or of the caller clears the token, and cancel() on a cancelled token
\* leaves it as one call did.
C18_CancelMonotonic ==
    [][/\ cancelled => cancelled'
       /\ \A token \in BOOLEAN :
              cancel(token) /\ cancel(cancel(token)) = cancel(token)]_vars

\* the token was cancelled, and after that an iteration began and a reply that a
\* handler had enqueued was written to the device
C18_Witness ==
    /\ cancelled /\ iterCancelled
    /\ pc = "select"
    /\ devWrites # <<>>
    /\ inQ # <<>>

\* descriptor closes that the end of the task makes when Inner::file is f
TeardownCloses(f) == Inner_drop(f).closes + writer_drop.closes

\* C19: however the task ends, the device descriptor is closed exactly once: the
\* async reader is forgotten and only the blocking writer closes it. While the
\* task runs the descriptor is open; when run has returned an error or has
\* panicked it has been closed once; and the teardown after run has returned Ok,
\* where run itself has taken and forgotten the reader, closes it once as well.
C19_ClosedOnce ==
    /\ closes = IF Ended THEN 1 ELSE 0
    /\ Ended <=> file # "some"
    /\ TeardownCloses("some") = 1
    /\ TeardownCloses(run_exit_file("some")) = 1

\* run has returned an error after a reply was written, and the task is gone
C19_Witness ==
    /\ pc = "done_err"
    /\ devWrites # <<>>
    /\ file = "none"
    /\ closes = 1

----------------------------------------------------------------------------
(* Claims on Builder::build *)

\* the errnos of the conditions that the builder b violates
Violations(b) ==
    (IF b.device_path = "missing" THEN {ENOENT} ELSE {})
    \cup (IF b.device_path = "regular" THEN {ENODEV} ELSE {})
    \cup (IF b.mount_path = "None" THEN {EINVAL} ELSE {})
    \cup (IF b.outbound_fs_request_tx = "None" THEN {EINVAL} ELSE {})

\* C20: build() on a builder whose device path does not exist returns ENOENT, on
\* one whose device path is no character device ENODEV, on one with no mount path
\* EINVAL and on one with no outbound request channel EINVAL: whenever a condition
\* is violated build() returns the errno of a violated condition, and then no
\* mount is attempted, no task is spawned and mount_options are left as they were.
C20_BuildValidation ==
    \A i \in DOMAIN built :
        LET b == built[i].before
            r == built[i].did
        IN  Violations(b) # {} =>
                /\ r.result = "Err"
                /\ r.errno \in Violations(b)
                /\ ~r.mount_attempted
                /\ ~r.spawned
                /\ r.builder.mount_options = b.mount_options

\* build() has failed with ENODEV on a builder whose one violation is a device
\* path that names a file which is no character device
C20_Witness ==
    /\ built # <<>>
    /\ LET b == built[1].before IN
          /\ b.device_path = "regular"
          /\ b.mount_path = "Some"
          /\ b.outbound_fs_request_tx = "Some"
          /\ built[1].did.errno = ENODEV

\* set_mount_options was never called on the builder b: its list is the default
\* list and what earlier build() calls have pushed
OptionsNeverSet(b) ==
    /\ Len(b.mount_options) >= Len(DefaultMountOptions)
    /\ SubSeq(b.mount_options, 1, Len(DefaultMountOptions)) = DefaultMountOptions

\* C21: when set_mount_options is never called, the list build() passes to
\* Mount::new is exactly AllowOther, DefaultPermissions, NoDev, NoAtime, each once.
C21_DefaultOptionsPassed ==
    \A i \in DOMAIN built :
        (built[i].did.mount_attempted /\ OptionsNeverSet(built[i].before))
            => built[i].did.mounted_with = DefaultMountOptions

----------------------------------------------------------------------------
(* Claims on the Request a handler holds *)

\* C22: through one Request at most one Reply is enqueued on the reply channel, so
\* the session writes at most one reply per request unique to the device.
C22_ReplyToSingleUse ==
    /\ \A j, k \in DOMAIN enqLog :
          j # k => enqLog[j].unique # enqLog[k].unique
    /\ \A i, j \in DOMAIN devWrites :
          i # j => enqLog[devWrites[i].seq].unique # enqLog[devWrites[j].seq].unique

\* how many times the option x is in the list
Times(x, options) == Cardinality({k \in DOMAIN options : options[k] = x})

\* the calls of build() that passed validation and went on to mount
Mounting == {i \in DOMAIN built : built[i].did.mount_attempted}

\* C28: the list handed to mount always holds AllowOther, also when
\* set_mount_options gave a list without it; every build() that passes
\* validation leaves mount_options one element longer, the pushed AllowOther,
\* and hands exactly that list to mount, so the next build() of the same
\* builder passes AllowOther one more time.
C28_AllowOtherPushed ==
    /\ \A i \in Mounting :
          LET before == built[i].before.mount_options
              passed == built[i].did.mounted_with
          IN  /\ Times("AllowOther", passed) >= 1
              /\ passed = before \o <<"AllowOther">>
              /\ built[i].did.builder.mount_options = passed
    /\ \A i, j \in Mounting :
          j = i + 1 =>
              Times("AllowOther", built[j].did.mounted_with)
                  = Times("AllowOther", built[i].did.mounted_with) + 1

\* set_mount_options gave a list without AllowOther, and build() has passed
\* validation twice: the second call handed AllowOther to mount twice
C28_Witness ==
    /\ Mounting = {1, 2}
    /\ built[1].before.mount_options = <<"NoDev">>
    /\ built[1].did.mounted_with = <<"NoDev", "AllowOther">>
    /\ built[2].did.mounted_with = <<"NoDev", "AllowOther", "AllowOther">>

----------------------------------------------------------------------------
(* Claims on Request::parse *)

\* parse has run on a slice that holds a whole header
ParsedHeader == parsed.tag # "None" /\ Len(slice) >= SIZE_IN_HEADER

\* C23: for every slice whose header len field is greater than the length of the
\* slice, Request::parse returns Err(EIO) and builds no Request.
C23_LenChecked ==
    (ParsedHeader /\ fuse_in_header(slice).len > Len(slice))
        => (parsed.tag = "Err" /\ parsed.errno = EIO)

\* the slice with every byte at or beyond the frame's length replaced by b
Refilled(s, b) ==
    LET len == fuse_in_header(s).len
    IN  Take(s, len) \o [i \in 1..(Len(s) - len) |-> b]

\* C24: what parse returns depends only on the bytes of the frame: no byte of
\* the buffer at or beyond the frame's length reaches a parsed name, payload or
\* argument, so replacing those bytes changes nothing.
C24_OnlyFrameBytes ==
    (ParsedHeader /\ fuse_in_header(slice).len \in SIZE_IN_HEADER..Len(slice))
        => \A b \in {0, 255} : Request_parse(Refilled(slice, b)) = parsed

\* C25: parse decodes the header from bytes 0..40 of the slice and, for FORGET
\* and every other opcode whose body is one fixed record, decodes the argument
\* from offset 40.
C25_ArgumentAtOffset40 ==
    (ParsedHeader /\ parsed.tag = "Ok")
        => /\ parsed.header.len = u32_at(slice, 0)
           /\ parsed.header.opcode = u32_at(slice, 4)
           /\ parsed.header.unique = SubSeq(slice, 9, 16)
           /\ parsed.header.nodeid = SubSeq(slice, 17, 24)
           /\ ( /\ parsed.header.opcode \in FixedOnlyOpcodes \cup {2}
                /\ Len(slice) >= SIZE_IN_HEADER + ArgSize(parsed.header.opcode) )
                 => parsed.operation.arg =
                        SubSeq(slice, SIZE_IN_HEADER + 1,
                               SIZE_IN_HEADER + ArgSize(parsed.header.opcode))

\* a WRITE frame that holds a whole fuse_write_in after the header
WriteSlice ==
    /\ ParsedHeader
    /\ fuse_in_header(slice).opcode = 16
    /\ Len(slice) >= SIZE_IN_HEADER + ArgSize(16)

\* C27: for WRITE the parsed data is exactly the arg.size bytes that follow the
\* fuse_write_in record, and when arg.size exceeds the bytes that remain in the
\* slice parse returns Err(EIO).
C27_WriteData ==
    WriteSlice =>
        LET size == u32_at(slice, SIZE_IN_HEADER + 16)
            from == SIZE_IN_HEADER + ArgSize(16)
        IN  IF size <= Len(slice) - from
            THEN /\ parsed.tag = "Ok"
                 /\ parsed.operation.data = SubSeq(slice, from + 1, from + size)
            ELSE /\ parsed.tag = "Err"
                 /\ parsed.errno = EIO

\* no variant of Operation has the discriminant n
Unrecognised(n) ==
    \A i \in DOMAIN OperationVariants : OperationVariants[i].discriminant # n

\* C30: for every Request that parse returns, get_opcode() of its operation is
\* the opcode of its header, which is the opcode field of the frame; for an
\* opcode that is not recognised parse returns Err(EIO).
C30_OpcodeOfVariant ==
    /\ parsed.tag = "Ok"
          => /\ parsed.header.opcode = u32_at(slice, 4)
             /\ get_opcode(parsed.operation.variant) = parsed.header.opcode
    /\ (ParsedHeader /\ Unrecognised(u32_at(slice, 4)))
          => (parsed.tag = "Err" /\ parsed.errno = EIO)

\* a CUSE_INIT frame, opcode 4096, was parsed into the variant CuseInit
C30_Witness ==
    /\ parsed.tag = "Ok"
    /\ u32_at(slice, 4) = 4096
    /\ parsed.operation.variant = "CuseInit"
    /\ get_opcode(parsed.operation.variant) = 4096

\* the bytes of the slice after the header and the fixed record of its opcode
Trailer == Drop(slice, SIZE_IN_HEADER + ArgSize(fuse_in_header(slice).opcode))

\* the bytes of the trailer before its first NUL
NameBytes == Take(Trailer, NulIndex(Trailer) - 1)

\* parse has run on a MKNOD, MKDIR, LINK or CREATE frame that holds the fixed
\* record and a NUL after it
FixedNameSlice ==
    /\ ParsedHeader
    /\ fuse_in_header(slice).opcode \in {8, 9, 13, 35}
    /\ Len(slice) >= SIZE_IN_HEADER + ArgSize(fuse_in_header(slice).opcode)
    /\ HasNul(Trailer)

\* the argument is the fixed record after the header, and MKNOD with mode 0o644
\* and the trailer "foo.txt\0" parses to mode 0o644 and the name "foo.txt"
FixedNameArgument ==
    FixedNameSlice =>
        /\ parsed.tag = "Ok"
        /\ parsed.operation.arg =
               SubSeq(slice, SIZE_IN_HEADER + 1,
                      SIZE_IN_HEADER + ArgSize(parsed.header.opcode))
        /\ slice = MknodFooTxt =>
               /\ u32_at(parsed.operation.arg, 0) = 420
               /\ parsed.operation.name = FooTxt

\* C31: for MKNOD, MKDIR, CREATE and LINK the parsed argument is the fixed record
\* that follows the header, and the parsed name is the lossy UTF-8 decoding of
\* the bytes between the end of that record and the first NUL after it, the NUL
\* excluded: those bytes themselves when they are ASCII, and with U+FFFD in
\* place of a byte that starts no valid sequence.
C31_FixedThenName ==
    /\ FixedNameArgument
    /\ FixedNameSlice =>
          /\ parsed.operation.name = from_utf8_lossy(NameBytes)
          /\ (\A i \in DOMAIN NameBytes : NameBytes[i] < 128)
                => parsed.operation.name = NameBytes
          /\ NameBytes = <<100, 255>>
                => parsed.operation.name = <<100, 239, 191, 189>>

\* the same with the name being the bytes before the NUL as they are
C31_NameIsBytes ==
    /\ FixedNameArgument
    /\ FixedNameSlice => parsed.operation.name = NameBytes

\* the MKNOD frame with mode 0o644 and the name "foo.txt" was parsed
C31_Witness ==
    /\ slice = MknodFooTxt
    /\ parsed.tag = "Ok"
    /\ parsed.operation.variant = "MkNod"
    /\ parsed.operation.name = FooTxt

----------------------------------------------------------------------------
(* Claims on the teardown of Inner *)

====
